---- MODULE Spec2Model ----
(***************************************************************************)
(* The chatbot service of app.py: ConversationManager (the exchange        *)
(* history), GroqChatBot (the completion provider call) and ChatAPI (the   *)
(* Flask handlers).  Flask serves requests on threads, so a handler is     *)
(* split at every point where it reads or writes state that other          *)
(* requests share: self.history (a reference to a Python list object),     *)
(* the list objects themselves, and the wall clock.                        *)
(*                                                                         *)
(* Python lists are heap objects.  `lists` is the heap, `history` is the   *)
(* reference held in ConversationManager.history.  clear_history rebinds   *)
(* the reference to a fresh list; it does not empty the old object.        *)
(***************************************************************************)
EXTENDS Integers, Sequences, FiniteSets, TLC

\* ------------------------------------------------------------------ bounds
MaxReq == 3          \* HTTP requests served in one behaviour
MaxThreads == 2      \* requests the server runs at the same time
MaxClock == 1        \* ticks of the wall clock
MaxCalls == 4        \* direct ConversationManager calls in SpecStore
MaxLive == 2         \* HTTP requests served in one behaviour of SpecLive
TicksPerSecond == 2  \* clock resolution: ticks (microseconds) per second

Req == 1..MaxReq

\* ------------------------------------------------------------------ values
\* JSON values as request.get_json() returns them (line 102).
JNull == [type |-> "null"]
JObject(f) == [type |-> "object", val |-> f]
JArray(s) == [type |-> "array", val |-> s]
JString(s) == [type |-> "string", val |-> s]
JNumber(n) == [type |-> "number", val |-> n]
JBool(b) == [type |-> "bool", val |-> b]

EmptyObject == [k \in {} |-> ""]

\* The characters of the strings the model uses (Python's `in` on a str is a
\* substring test, which needs them).
chars(s) ==
  CASE s = "" -> <<>>
    [] s = "hi" -> <<"h", "i">>
    [] s = "message" -> <<"m", "e", "s", "s", "a", "g", "e">>
    [] s = "my message" -> <<"m", "y", " ", "m", "e", "s", "s", "a", "g", "e">>
    [] OTHER -> <<"?">>

\* Bodies a client can POST to /chat.
Bodies ==
  { JNull,
    JObject(EmptyObject),
    JObject([k \in {"text"} |-> "hi"]),
    JObject([k \in {"message"} |-> "hi"]),
    JObject([k \in {"message"} |-> ""]),
    JArray(<<"message">>),
    JString("hi"),
    JString("my message"),
    JNumber(5),
    JBool(TRUE) }

\* Texts the completion provider can return.
Replies == {"hello", ""}

\* Texts a direct caller of ConversationManager passes.
Texts == {"hi", "hello", ""}

NoResult == [code |-> 0]

VARIABLES
  lists,        \* heap of Python list objects: list id -> sequence of exchanges
  history,      \* ConversationManager.history: the id of the current list
  clock,        \* the wall clock datetime.now() reads
  pc,           \* per request: the handler's position
  kind,         \* per request: the route it was dispatched to
  frame,        \* per request: the handler's local variables while it runs
  result,       \* per request: the HTTP response
  view,         \* SpecStore: the list a direct caller got from get_history()
  out,          \* SpecStore: the last direct call and what it returned
  calls,        \* SpecStore: number of direct calls made
  \* history variables (not program state)
  built,        \* requests in the order their context was built
  appended,     \* <<request, list id>> in the order of the appends
  asked,        \* per request: the message the client sent
  provided,     \* per request: the text the provider returned
  post_append,  \* per request: store size right after its own append
  disturbed,    \* per request: another request appended or cleared between
                \* its append and its response
  overlap,      \* an append happened while another add_exchange was between
                \* its timestamp read and its append
  stale,        \* per request: another request appended or cleared while it
                \* was between its first read of self.history and its last
                \* use of what it read
  epoch,        \* number of clears run so far
  ctx_epoch,    \* per request: epoch when its context build read self.history
  add_epoch     \* per request: epoch when its add_exchange read self.history

vars == <<lists, history, clock, pc, kind, frame, result, view, out, calls,
          built, appended, asked, provided, post_append, disturbed, overlap,
          stale, epoch, ctx_epoch, add_epoch>>

reqvars == <<pc, kind, frame, result>>
epochvars == <<stale, epoch, ctx_epoch, add_epoch>>
ghostvars == <<built, appended, asked, provided, post_append, disturbed, overlap,
               epochvars>>
storevars == <<view, out, calls>>

\* ------------------------------------------------------- Python semantics
Ok(v) == [raise |-> FALSE, val |-> v]
Raise(msg) == [raise |-> TRUE, val |-> msg]

IsSubstring(p, s) ==
  \E i \in 0..(Len(s) - Len(p)) : SubSeq(s, i + 1, i + Len(p)) = p

\* bool(d): what `not data` negates.
py_truthy(d) ==
  CASE d.type = "null" -> FALSE
    [] d.type = "object" -> DOMAIN d.val # {}
    [] d.type = "array" -> d.val # <<>>
    [] d.type = "string" -> d.val # ""
    [] d.type = "number" -> d.val # 0
    [] d.type = "bool" -> d.val

\* k in d: key membership for a dict, element membership for a list, a
\* substring test for a str, TypeError for an int or a bool.
py_contains(k, d) ==
  CASE d.type = "object" -> Ok(k \in DOMAIN d.val)
    [] d.type = "array" -> Ok(\E i \in 1..Len(d.val) : d.val[i] = k)
    [] d.type = "string" -> Ok(IsSubstring(chars(k), chars(d.val)))
    [] d.type = "number" -> Raise("argument of type 'int' is not iterable")
    [] d.type = "bool" -> Raise("argument of type 'bool' is not iterable")
    [] OTHER -> Raise("argument of type 'NoneType' is not iterable")

\* d[k] with a str key.
py_getitem(d, k) ==
  CASE d.type = "object" -> Ok(d.val[k])
    [] d.type = "array" -> Raise("list indices must be integers or slices, not str")
    [] d.type = "string" -> Raise("string indices must be integers")
    [] OTHER -> Raise("object is not subscriptable")

\* datetime.isoformat(): seconds, then the microseconds only when they are
\* not zero.  The text is a sequence of fields; texts compare field by field.
isoformat(t) ==
  LET sec == t \div TicksPerSecond
      micro == t % TicksPerSecond
  IN IF micro = 0 THEN <<sec>> ELSE <<sec, micro>>

RECURSIVE StrLeq(_, _)
StrLeq(a, b) ==
  IF a = <<>> THEN TRUE
  ELSE IF b = <<>> THEN FALSE
  ELSE IF Head(a) < Head(b) THEN TRUE
  ELSE IF Head(a) > Head(b) THEN FALSE
  ELSE StrLeq(Tail(a), Tail(b))

\* ---------------------------------------------------- ConversationManager
\* The methods as functions of the list object they read (h) and the clock.
GroqChatBot_model == "llama-3.1-8b-instant"

\* Mutant: the two texts land in each other's field.
new_exchange_swapped(u, a, now) ==
  [user |-> a, assistant |-> u, timestamp |-> isoformat(now)]

new_exchange(u, a, now) ==
  [user |-> u, assistant |-> a, timestamp |-> isoformat(now)]

\* Mutant: insert(0, exchange) instead of append.
list_insert_front(h, e) == <<e>> \o h

\* Mutant: insert(len - 1, exchange), which lands before the last element.
list_insert_before_last(h, e) ==
  IF h = <<>> THEN <<e>>
  ELSE SubSeq(h, 1, Len(h) - 1) \o <<e, h[Len(h)]>>

list_append(h, e) == Append(h, e)

\* Mutant: a count that is one too high.
get_total_exchanges_off_by_one(h) == Len(h) + 1

\* Mutant: the messages of the transcript are counted, two per exchange.
get_total_exchanges_messages(h) == 2 * Len(h)

get_total_exchanges(h) == Len(h)

RECURSIVE build_message_context_loop(_, _)
build_message_context_loop(h, messages) ==
  IF h = <<>> THEN messages
  ELSE build_message_context_loop(
         Tail(h),
         messages \o <<[role |-> "user", content |-> Head(h).user],
                       [role |-> "assistant", content |-> Head(h).assistant]>>)

\* Mutant: the current message is put first instead of last.
build_message_context_current_first(h, current_message) ==
  <<[role |-> "user", content |-> current_message]>>
    \o build_message_context_loop(h, <<>>)

\* Mutant: only the current message is sent.
build_message_context_stateless(h, current_message) ==
  <<[role |-> "user", content |-> current_message]>>

build_message_context(h, current_message) ==
  build_message_context_loop(h, <<>>)
    \o <<[role |-> "user", content |-> current_message]>>

\* str(i) of line 58's f-string: the decimal digits of i, most significant
\* first.
DigitChar(d) ==
  CASE d = 0 -> "0" [] d = 1 -> "1" [] d = 2 -> "2" [] d = 3 -> "3"
    [] d = 4 -> "4" [] d = 5 -> "5" [] d = 6 -> "6" [] d = 7 -> "7"
    [] d = 8 -> "8" [] d = 9 -> "9"

RECURSIVE py_str(_)
py_str(i) ==
  IF i < 10 THEN <<DigitChar(i)>>
  ELSE py_str(i \div 10) \o <<DigitChar(i % 10)>>

\* Lines 54-59.  The text is the sequence of its pieces: the header, then for
\* each exchange "\n", the index, ". User: ", the user text, "\n   Bot: " and
\* the assistant text.
SummaryHeader == "Previous conversations:\n"

RECURSIVE generate_summary_loop(_, _, _)
generate_summary_loop(h, i, summary) ==
  IF h = <<>> THEN summary
  ELSE generate_summary_loop(
         Tail(h), i + 1,
         summary \o <<"\n">> \o py_str(i)
                 \o <<". User: ", Head(h).user, "\n   Bot: ", Head(h).assistant>>)

\* Mutant: enumerate(self.history) without the start value numbers from 0.
generate_summary_from_zero(h) == generate_summary_loop(h, 0, <<SummaryHeader>>)

generate_summary(h) == generate_summary_loop(h, 1, <<SummaryHeader>>)

\* A handler's locals before it assigns them, and after it has returned.
\*   data, user_message, response: handle_chat's variables of those names
\*   call: the arguments of the provider call (model, messages)
\*   exchange: add_exchange's `exchange`
\*   ref: the list object the running statement holds
\*   count: a get_total_exchanges() value already read
\*   summary: handle_get_summary's `summary`
NoFrame ==
  [data |-> JNull, user_message |-> "", call |-> [model |-> "", messages |-> <<>>],
   response |-> "", exchange |-> [user |-> "", assistant |-> "", timestamp |-> <<>>],
   ref |-> 0, count |-> 0, summary |-> <<>>]

\* ------------------------------------------------------------------- Init
Init ==
  /\ lists = << <<>> >>
  /\ history = 1
  /\ clock = 0
  /\ pc = [r \in Req |-> "idle"]
  /\ kind = [r \in Req |-> "none"]
  /\ frame = [r \in Req |-> NoFrame]
  /\ result = [r \in Req |-> NoResult]
  /\ view = 0
  /\ out = [op |-> "none"]
  /\ calls = 0
  /\ built = <<>>
  /\ appended = <<>>
  /\ asked = [r \in Req |-> ""]
  /\ provided = [r \in Req |-> ""]
  /\ post_append = [r \in Req |-> 0]
  /\ disturbed = [r \in Req |-> FALSE]
  /\ overlap = FALSE
  /\ stale = [r \in Req |-> FALSE]
  /\ epoch = 0
  /\ ctx_epoch = [r \in Req |-> 0]
  /\ add_epoch = [r \in Req |-> 0]

\* Requests are numbered in the order the server accepts them.
InFlight == {q \in Req : pc[q] \notin {"idle", "done"}}

Fresh(r) ==
  /\ pc[r] = "idle"
  /\ \A q \in 1..(r - 1) : pc[q] # "idle"
  /\ Cardinality(InFlight) < MaxThreads

BadRequest == [code |-> 400, error |-> "No message provided", status |-> "failed"]
ServerError(e) == [code |-> 500, error |-> e, status |-> "failed"]

\* Positions at which a request holds something it read from the store and
\* has not finished using: the context until its exchange is appended, the
\* list or summary until the response is written.
Holding == {"iter", "call", "stamp", "load", "append",
            "total", "json", "sum_iter", "sum_total"}

\* Request r appends or clears: the others that are holding see it.
MarksStale(r) ==
  stale' = [q \in Req |-> IF q # r /\ pc[q] \in Holding THEN TRUE ELSE stale[q]]

\* The handler of request r returns `res`: its locals are gone.
Return(r, res) ==
  /\ result' = [result EXCEPT ![r] = res]
  /\ frame' = [frame EXCEPT ![r] = NoFrame]
  /\ pc' = [pc EXCEPT ![r] = "done"]

\* The message field of a body, "" when it has none.
MessageOf(d) ==
  IF d.type = "object" /\ "message" \in DOMAIN d.val THEN d.val["message"] ELSE ""

\* ------------------------------------------------------------ handle_chat
\* Line 102: data = request.get_json().
handle_chat_get_json(r) ==
  /\ Fresh(r)
  /\ \E d \in Bodies :
       /\ frame' = [frame EXCEPT ![r].data = d]
       /\ asked' = [asked EXCEPT ![r] = MessageOf(d)]
  /\ kind' = [kind EXCEPT ![r] = "chat"]
  /\ pc' = [pc EXCEPT ![r] = "validate"]
  /\ UNCHANGED <<lists, history, clock, result>>
  /\ UNCHANGED storevars
  /\ UNCHANGED <<built, appended, provided, post_append, disturbed, overlap>>
  /\ UNCHANGED epochvars

\* Lines 104-110 (and 127-131 when an operator raises): what the validation
\* makes of the parsed body.
chat_validate(d) ==
  IF ~py_truthy(d) THEN [to |-> "done", result |-> BadRequest]
  ELSE LET has == py_contains("message", d) IN
    IF has.raise THEN [to |-> "done", result |-> ServerError(has.val)]
    ELSE IF ~has.val THEN [to |-> "done", result |-> BadRequest]
    ELSE LET item == py_getitem(d, "message") IN
      IF item.raise THEN [to |-> "done", result |-> ServerError(item.val)]
      ELSE [to |-> "build", user_message |-> item.val]

handle_chat_validate(r) ==
  /\ pc[r] = "validate"
  /\ LET v == chat_validate(frame[r].data) IN
       IF v.to = "done"
       THEN Return(r, v.result)
       ELSE /\ frame' = [frame EXCEPT ![r].user_message = v.user_message]
            /\ pc' = [pc EXCEPT ![r] = "build"]
            /\ UNCHANGED result
  /\ UNCHANGED <<lists, history, clock, kind>>
  /\ UNCHANGED storevars
  /\ UNCHANGED ghostvars

\* Line 46: the for statement evaluates self.history once and iterates over
\* that list object.
build_message_context_load(r) ==
  /\ pc[r] = "build"
  /\ frame' = [frame EXCEPT ![r].ref = history]
  /\ pc' = [pc EXCEPT ![r] = "iter"]
  /\ ctx_epoch' = [ctx_epoch EXCEPT ![r] = epoch]
  /\ UNCHANGED <<lists, history, clock, kind, result>>
  /\ UNCHANGED storevars
  /\ UNCHANGED <<built, appended, asked, provided, post_append, disturbed,
                 overlap, stale, epoch, add_epoch>>

\* Mutant: the context is built by pushing the new user turn onto the history.
build_message_context_done_in_place(r) ==
  /\ pc[r] = "iter"
  /\ lists' = [lists EXCEPT ![frame[r].ref] =
       Append(@, [user |-> frame[r].user_message, assistant |-> "",
                  timestamp |-> isoformat(clock)])]
  /\ frame' = [frame EXCEPT ![r].call =
       [model |-> GroqChatBot_model,
        messages |-> build_message_context(lists[frame[r].ref],
                                           frame[r].user_message)]]
  /\ pc' = [pc EXCEPT ![r] = "call"]
  /\ built' = Append(built, r)
  /\ UNCHANGED <<history, clock, kind, result>>
  /\ UNCHANGED storevars
  /\ UNCHANGED <<appended, asked, provided, post_append, disturbed, overlap>>
  /\ UNCHANGED epochvars

\* Lines 46-52 and 113-114: a list object only grows, so the loop yields the
\* contents the object has when the iterator finds it exhausted; the messages
\* are then passed to the provider call with the model of line 73.
build_message_context_done(r) ==
  /\ pc[r] = "iter"
  /\ frame' = [frame EXCEPT ![r].call =
       [model |-> GroqChatBot_model,
        messages |-> build_message_context(lists[frame[r].ref],
                                           frame[r].user_message)]]
  /\ pc' = [pc EXCEPT ![r] = "call"]
  /\ built' = Append(built, r)
  /\ UNCHANGED <<lists, history, clock, kind, result>>
  /\ UNCHANGED storevars
  /\ UNCHANGED <<appended, asked, provided, post_append, disturbed, overlap>>
  /\ UNCHANGED epochvars

\* Mutant: an empty reply is replaced by a default text.
get_response_return_default(r) ==
  /\ pc[r] = "call"
  /\ \E text \in Replies :
       /\ frame' = [frame EXCEPT ![r].response = IF text = "" THEN "hello" ELSE text]
       /\ provided' = [provided EXCEPT ![r] = text]
  /\ pc' = [pc EXCEPT ![r] = "stamp"]
  /\ UNCHANGED <<lists, history, clock, kind, result>>
  /\ UNCHANGED storevars
  /\ UNCHANGED <<built, appended, asked, post_append, disturbed, overlap>>
  /\ UNCHANGED epochvars

\* Lines 72-76: the provider answers with a text.
get_response_return(r) ==
  /\ pc[r] = "call"
  /\ \E text \in Replies :
       /\ frame' = [frame EXCEPT ![r].response = text]
       /\ provided' = [provided EXCEPT ![r] = text]
  /\ pc' = [pc EXCEPT ![r] = "stamp"]
  /\ UNCHANGED <<lists, history, clock, kind, result>>
  /\ UNCHANGED storevars
  /\ UNCHANGED <<built, appended, asked, post_append, disturbed, overlap>>
  /\ UNCHANGED epochvars

\* Mutant: the failed turn is recorded before the 500 is returned.
get_response_raise_recorded(r) ==
  /\ pc[r] = "call"
  /\ lists' = [lists EXCEPT ![history] =
       list_append(@, new_exchange(frame[r].user_message, "provider error", clock))]
  /\ Return(r, ServerError("provider error"))
  /\ UNCHANGED <<history, clock, kind>>
  /\ UNCHANGED storevars
  /\ UNCHANGED ghostvars

\* Lines 72-76 and 127-131: the provider call raises; handle_chat's except
\* clause answers 500.
get_response_raise(r) ==
  /\ pc[r] = "call"
  /\ Return(r, ServerError("provider error"))
  /\ UNCHANGED <<lists, history, clock, kind>>
  /\ UNCHANGED storevars
  /\ UNCHANGED ghostvars

\* Lines 21-25: the exchange dict is built, reading the clock.
add_exchange_stamp(r) ==
  /\ pc[r] = "stamp"
  /\ frame' = [frame EXCEPT ![r].exchange =
       new_exchange(frame[r].user_message, frame[r].response, clock)]
  /\ pc' = [pc EXCEPT ![r] = "load"]
  /\ UNCHANGED <<lists, history, clock, kind, result>>
  /\ UNCHANGED storevars
  /\ UNCHANGED ghostvars

\* Line 26: self.history is evaluated ...
add_exchange_load(r) ==
  /\ pc[r] = "load"
  /\ frame' = [frame EXCEPT ![r].ref = history]
  /\ pc' = [pc EXCEPT ![r] = "append"]
  /\ add_epoch' = [add_epoch EXCEPT ![r] = epoch]
  /\ UNCHANGED <<lists, history, clock, kind, result>>
  /\ UNCHANGED storevars
  /\ UNCHANGED <<built, appended, asked, provided, post_append, disturbed,
                 overlap, stale, epoch, ctx_epoch>>

\* Mutant: the append waits for a lock that is never released.
add_exchange_append_blocked(r) ==
  /\ pc[r] = "append"
  /\ FALSE
  /\ UNCHANGED vars

\* ... and append is called on that list object.
add_exchange_append(r) ==
  /\ pc[r] = "append"
  /\ lists' = [lists EXCEPT ![frame[r].ref] = list_append(@, frame[r].exchange)]
  /\ pc' = [pc EXCEPT ![r] = "count1"]
  /\ appended' = Append(appended, <<r, frame[r].ref>>)
  /\ post_append' = [post_append EXCEPT ![r] = Len(lists'[history])]
  /\ disturbed' = [q \in Req |->
       IF q # r /\ pc[q] \in {"count1", "count2"} THEN TRUE ELSE disturbed[q]]
  /\ overlap' = (overlap \/ \E q \in Req \ {r} : pc[q] \in {"load", "append"})
  /\ MarksStale(r)
  /\ UNCHANGED <<history, clock, kind, frame, result>>
  /\ UNCHANGED storevars
  /\ UNCHANGED <<built, asked, provided, epoch, ctx_epoch, add_epoch>>

\* Line 123: the first get_total_exchanges() of the response.
handle_chat_conversation_id(r) ==
  /\ pc[r] = "count1"
  /\ frame' = [frame EXCEPT ![r].count = get_total_exchanges(lists[history])]
  /\ pc' = [pc EXCEPT ![r] = "count2"]
  /\ UNCHANGED <<lists, history, clock, kind, result>>
  /\ UNCHANGED storevars
  /\ UNCHANGED ghostvars

\* Lines 119-125: the second get_total_exchanges() and the 200 response.
handle_chat_respond(r) ==
  /\ pc[r] = "count2"
  /\ Return(r, [code |-> 200,
                response |-> frame[r].response,
                status |-> "success",
                model |-> GroqChatBot_model,
                conversation_id |-> frame[r].count,
                history_count |-> get_total_exchanges(lists[history])])
  /\ UNCHANGED <<lists, history, clock, kind>>
  /\ UNCHANGED storevars
  /\ UNCHANGED ghostvars

\* ------------------------------------------------------ the other handlers
handle_health(r) ==
  /\ Fresh(r)
  /\ kind' = [kind EXCEPT ![r] = "health"]
  /\ Return(r, [code |-> 200, status |-> "healthy"])
  /\ UNCHANGED <<lists, history, clock>>
  /\ UNCHANGED storevars
  /\ UNCHANGED ghostvars

\* Line 141: get_history() returns the list object itself.
handle_get_history_ref(r) ==
  /\ Fresh(r)
  /\ kind' = [kind EXCEPT ![r] = "get_history"]
  /\ frame' = [frame EXCEPT ![r].ref = history]
  /\ pc' = [pc EXCEPT ![r] = "total"]
  /\ UNCHANGED <<lists, history, clock, result>>
  /\ UNCHANGED storevars
  /\ UNCHANGED ghostvars

\* Line 142.
handle_get_history_total(r) ==
  /\ pc[r] = "total"
  /\ frame' = [frame EXCEPT ![r].count = get_total_exchanges(lists[history])]
  /\ pc' = [pc EXCEPT ![r] = "json"]
  /\ UNCHANGED <<lists, history, clock, kind, result>>
  /\ UNCHANGED storevars
  /\ UNCHANGED ghostvars

\* Lines 139-143: jsonify serialises the list object as it is now.
handle_get_history_respond(r) ==
  /\ pc[r] = "json"
  /\ Return(r, [code |-> 200,
                status |-> "success",
                history |-> lists[frame[r].ref],
                total_exchanges |-> frame[r].count])
  /\ UNCHANGED <<lists, history, clock, kind>>
  /\ UNCHANGED storevars
  /\ UNCHANGED ghostvars

\* Line 57: generate_summary's for statement evaluates self.history once.
handle_get_summary_load(r) ==
  /\ Fresh(r)
  /\ kind' = [kind EXCEPT ![r] = "summary"]
  /\ frame' = [frame EXCEPT ![r].ref = history]
  /\ pc' = [pc EXCEPT ![r] = "sum_iter"]
  /\ UNCHANGED <<lists, history, clock, result>>
  /\ UNCHANGED storevars
  /\ UNCHANGED ghostvars

\* Lines 56-59 and 155: the loop yields the contents the list object has when
\* the iterator finds it exhausted.
handle_get_summary_format(r) ==
  /\ pc[r] = "sum_iter"
  /\ frame' = [frame EXCEPT ![r].summary = generate_summary(lists[frame[r].ref])]
  /\ pc' = [pc EXCEPT ![r] = "sum_total"]
  /\ UNCHANGED <<lists, history, clock, kind, result>>
  /\ UNCHANGED storevars
  /\ UNCHANGED ghostvars

\* Lines 156-160: get_total_exchanges() is read and the response returned.
handle_get_summary_respond(r) ==
  /\ pc[r] = "sum_total"
  /\ Return(r, [code |-> 200,
                status |-> "success",
                summary |-> frame[r].summary,
                total_exchanges |-> get_total_exchanges(lists[history])])
  /\ UNCHANGED <<lists, history, clock, kind>>
  /\ UNCHANGED storevars
  /\ UNCHANGED ghostvars

\* Mutant: the statement has no effect (self.history.clear without a call).
clear_history_noop ==
  /\ lists' = lists
  /\ history' = history

\* Mutant: only the latest exchange is dropped (del self.history[-1:]).
clear_history_drop_last ==
  /\ lists' = Append(lists, SubSeq(lists[history], 1, Len(lists[history]) - 1))
  /\ history' = Len(lists) + 1

\* Mutant: the list object is emptied in place (self.history.clear()).
clear_history_in_place ==
  /\ lists' = [lists EXCEPT ![history] = <<>>]
  /\ history' = history

\* Lines 33-35: self.history is bound to a new empty list object; the old
\* object stays as it is for whoever still holds it.
clear_history ==
  /\ lists' = Append(lists, <<>>)
  /\ history' = Len(lists) + 1

\* Lines 145-151.
handle_clear_history(r) ==
  /\ Fresh(r)
  /\ kind' = [kind EXCEPT ![r] = "clear"]
  /\ clear_history
  /\ Return(r, [code |-> 200,
                status |-> "success",
                message |-> "Conversation history cleared"])
  /\ disturbed' = [q \in Req |->
       IF q # r /\ pc[q] \in {"count1", "count2"} THEN TRUE ELSE disturbed[q]]
  /\ MarksStale(r)
  /\ epoch' = epoch + 1
  /\ UNCHANGED clock
  /\ UNCHANGED storevars
  /\ UNCHANGED <<built, appended, asked, provided, post_append, overlap,
                 ctx_epoch, add_epoch>>

\* The wall clock advances (it is taken never to step backwards).
Tick ==
  /\ clock < MaxClock
  /\ clock' = clock + 1
  /\ UNCHANGED <<lists, history>>
  /\ UNCHANGED reqvars
  /\ UNCHANGED storevars
  /\ UNCHANGED ghostvars

Next ==
  \/ Tick
  \/ \E r \in Req :
       \/ handle_chat_get_json(r)
       \/ handle_chat_validate(r)
       \/ build_message_context_load(r)
       \/ build_message_context_done(r)
       \/ get_response_return(r)
       \/ get_response_raise(r)
       \/ add_exchange_stamp(r)
       \/ add_exchange_load(r)
       \/ add_exchange_append(r)
       \/ handle_chat_conversation_id(r)
       \/ handle_chat_respond(r)
       \/ handle_health(r)
       \/ handle_get_history_ref(r)
       \/ handle_get_history_total(r)
       \/ handle_get_history_respond(r)
       \/ handle_get_summary_load(r)
       \/ handle_get_summary_format(r)
       \/ handle_get_summary_respond(r)
       \/ handle_clear_history(r)

Spec == Init /\ [][Next]_vars

\* SpecLive: the same service with the scheduling the threads get.  A handler
\* that can take a step is eventually run (its steps never block); whether
\* and when a request arrives, and whether and when the provider answers, is
\* up to the outside world, so neither is fair.
LiveReq == 1..MaxLive

Thread(r) ==
  \/ handle_chat_validate(r)
  \/ build_message_context_load(r)
  \/ build_message_context_done(r)
  \/ add_exchange_stamp(r)
  \/ add_exchange_load(r)
  \/ add_exchange_append(r)
  \/ handle_chat_conversation_id(r)
  \/ handle_chat_respond(r)
  \/ handle_get_history_total(r)
  \/ handle_get_history_respond(r)
  \/ handle_get_summary_format(r)
  \/ handle_get_summary_respond(r)

NextLive ==
  \/ Tick
  \/ \E r \in LiveReq :
       \/ handle_chat_get_json(r)
       \/ handle_health(r)
       \/ handle_get_history_ref(r)
       \/ handle_get_summary_load(r)
       \/ handle_clear_history(r)
       \/ get_response_return(r)
       \/ get_response_raise(r)
       \/ Thread(r)

SpecLive ==
  /\ Init
  /\ [][NextLive]_vars
  /\ \A r \in LiveReq : WF_vars(Thread(r))

\* ------------------------------------------------ ConversationManager alone
\* SpecStore: one single-threaded caller uses a ConversationManager directly,
\* one method call per step, and may operate on the list get_history() gave it.
Called(op, arg, ret) ==
  /\ calls < MaxCalls
  /\ calls' = calls + 1
  /\ out' = [op |-> op, arg |-> arg, ret |-> ret]

\* Lines 19-27, run without interruption.
call_add_exchange ==
  /\ \E u \in Texts, a \in Texts :
       LET e == new_exchange(u, a, clock) IN
       /\ lists' = [lists EXCEPT ![history] = list_append(@, e)]
       /\ Called("add_exchange", <<u, a>>, e)
  /\ UNCHANGED <<history, clock, view>>
  /\ UNCHANGED reqvars
  /\ UNCHANGED ghostvars

\* Lines 29-31: the caller receives self.history, the list object itself.
call_get_history ==
  /\ view' = history
  /\ Called("get_history", <<>>, history)
  /\ UNCHANGED <<lists, history, clock>>
  /\ UNCHANGED reqvars
  /\ UNCHANGED ghostvars

call_clear_history ==
  /\ clear_history
  /\ Called("clear_history", <<>>, <<>>)
  /\ UNCHANGED <<clock, view>>
  /\ UNCHANGED reqvars
  /\ UNCHANGED ghostvars

\* Lines 37-39.
call_get_total_exchanges ==
  /\ Called("get_total_exchanges", <<>>, get_total_exchanges(lists[history]))
  /\ UNCHANGED <<lists, history, clock, view>>
  /\ UNCHANGED reqvars
  /\ UNCHANGED ghostvars

\* Lines 41-52.
call_build_message_context ==
  /\ \E x \in Texts :
       Called("build_message_context", x, build_message_context(lists[history], x))
  /\ UNCHANGED <<lists, history, clock, view>>
  /\ UNCHANGED reqvars
  /\ UNCHANGED ghostvars

\* Lines 54-59.
call_generate_summary ==
  /\ Called("generate_summary", <<>>, generate_summary(lists[history]))
  /\ UNCHANGED <<lists, history, clock, view>>
  /\ UNCHANGED reqvars
  /\ UNCHANGED ghostvars

\* What the caller can do with the list it holds: append to it, remove from
\* it, replace an element.
Foreign == [user |-> "hello", assistant |-> "hi", timestamp |-> <<>>]

caller_append ==
  /\ view # 0
  /\ lists' = [lists EXCEPT ![view] = Append(@, Foreign)]
  /\ Called("view.append", Foreign, <<>>)
  /\ UNCHANGED <<history, clock, view>>
  /\ UNCHANGED reqvars
  /\ UNCHANGED ghostvars

caller_pop ==
  /\ view # 0
  /\ lists[view] # <<>>
  /\ lists' = [lists EXCEPT ![view] = SubSeq(@, 1, Len(@) - 1)]
  /\ Called("view.pop", <<>>, lists[view][Len(lists[view])])
  /\ UNCHANGED <<history, clock, view>>
  /\ UNCHANGED reqvars
  /\ UNCHANGED ghostvars

caller_setitem ==
  /\ view # 0
  /\ lists[view] # <<>>
  /\ lists[view][1] # Foreign
  /\ lists' = [lists EXCEPT ![view][1] = Foreign]
  /\ Called("view.setitem", <<1, Foreign>>, <<>>)
  /\ UNCHANGED <<history, clock, view>>
  /\ UNCHANGED reqvars
  /\ UNCHANGED ghostvars

CallerMutates == caller_append \/ caller_pop \/ caller_setitem

NextStore ==
  \/ Tick
  \/ call_add_exchange
  \/ call_get_history
  \/ call_clear_history
  \/ call_get_total_exchanges
  \/ call_build_message_context
  \/ call_generate_summary
  \/ caller_append
  \/ caller_pop
  \/ caller_setitem

SpecStore == Init /\ [][NextStore]_vars

\* ================================================================== claims
ChatOk(r) == kind[r] = "chat" /\ pc[r] = "done" /\ result[r].code = 200

\* The chat requests whose add_exchange has completed.
Stored == {r \in Req : pc[r] \in {"count1", "count2"} \/ ChatOk(r)}

NoClear == \A r \in Req : kind[r] # "clear"

\* The appends made to list object L, oldest first.
AppendsTo(L) ==
  LET ToL(e) == e[2] = L IN SelectSeq(appended, ToL)

\* C1: from the empty store of a fresh service, as long as no clear has run,
\* the number of stored exchanges equals the number N of chat turns that have
\* completed their add_exchange, and the i-th stored exchange carries the
\* message the i-th appending request was sent and the reply the provider
\* gave that request.
C1_TurnsRecorded ==
  NoClear =>
    LET h == lists[history]
        N == Cardinality(Stored)
    IN /\ get_total_exchanges(h) = N
       /\ Len(h) = N
       /\ Len(appended) = N
       /\ \A i \in 1..N :
            /\ h[i].user = asked[appended[i][1]]
            /\ h[i].assistant = provided[appended[i][1]]

C1_Witness ==
  /\ NoClear
  /\ Cardinality({r \in Req : ChatOk(r)}) = 2
  /\ Len(lists[history]) = 2
  /\ lists[history][1].assistant # lists[history][2].assistant
  /\ lists[history][1].user # lists[history][1].assistant

\* C2: build_message_context(x) on a store holding n exchanges returns 2n+1
\* messages: for each exchange in insertion order its user message then its
\* assistant message, and last the user message x; on an empty store exactly
\* the one message {user, x}.
C2_ContextShape ==
  out.op = "build_message_context" =>
    LET h == lists[history]
        n == Len(h)
        m == out.ret
    IN /\ Len(m) = 2 * n + 1
       /\ \A i \in 1..n :
            /\ m[2 * i - 1] = [role |-> "user", content |-> h[i].user]
            /\ m[2 * i] = [role |-> "assistant", content |-> h[i].assistant]
       /\ m[2 * n + 1] = [role |-> "user", content |-> out.arg]
       /\ (n = 0 => m = <<[role |-> "user", content |-> out.arg]>>)

C2_Witness ==
  /\ out.op = "build_message_context"
  /\ Len(lists[history]) = 2
  /\ lists[history][1].user # lists[history][2].user
  /\ lists[history][1].assistant # lists[history][1].user
  /\ Len(out.ret) = 5

\* C3: when the provider call of a chat request raises, the request is
\* answered 500 with status "failed"; no step the request has taken, that one
\* included, changes the history, and the request is never among the appenders.
C3_ProviderFailure ==
  /\ [](\A r \in Req :
          (pc[r] = "done" /\ result[r] = ServerError("provider error"))
            => \A i \in 1..Len(appended) : appended[i][1] # r)
  /\ [][\A r \in Req :
          (pc[r] = "call" /\ pc'[r] = "done")
            => /\ result'[r].code = 500
               /\ result'[r].status = "failed"
               /\ lists' = lists
               /\ history' = history]_vars
  /\ [][\A r \in Req :
          (kind'[r] = "chat" /\ pc'[r] # pc[r]
             /\ pc[r] \in {"idle", "validate", "build", "iter", "call"})
            => (lists' = lists /\ history' = history)]_vars

C3_Witness ==
  \E r \in Req :
    /\ pc[r] = "done"
    /\ result[r] = ServerError("provider error")
    /\ Len(lists[history]) = 1
    /\ \E q \in Req : ChatOk(q) /\ q < r

HasMessageField(d) == d.type = "object" /\ "message" \in DOMAIN d.val

\* C4: every chat request whose body has no `message` field is answered 400
\* {"error": "No message provided", "status": "failed"}, without a provider
\* call and without a change to the history.
C4_MissingMessageIs400 ==
  [][\A r \in Req :
       (pc[r] = "validate" /\ pc'[r] # "validate"
          /\ ~HasMessageField(frame[r].data))
         => /\ pc'[r] = "done"
            /\ result'[r] = BadRequest
            /\ lists' = lists
            /\ history' = history]_vars

\* C5 (as claimed): in every 200 chat response, under any interleaving,
\* conversation_id = history_count = the store's size right after the
\* request's own append.
C5_CountsAlways ==
  \A r \in Req :
    ChatOk(r) =>
      /\ result[r].conversation_id = result[r].history_count
      /\ result[r].conversation_id = post_append[r]

\* C5 (amended): the same, for the responses of requests during whose span
\* from their own append to their response no other request appended or
\* cleared.
C5_CountsWhenUndisturbed ==
  \A r \in Req :
    (ChatOk(r) /\ ~disturbed[r]) =>
      /\ result[r].conversation_id = result[r].history_count
      /\ result[r].conversation_id = post_append[r]

C5_Witness ==
  \E r \in Req :
    /\ ChatOk(r)
    /\ ~disturbed[r]
    /\ result[r].conversation_id = 2
    /\ result[r].history_count = 2

Monotone(h) ==
  \A i, j \in 1..Len(h) : i < j => StrLeq(h[i].timestamp, h[j].timestamp)

\* C6 (as claimed): timestamps never decrease along the stored sequence, also
\* when add_exchange calls run concurrently.
C6_TimestampsMonotone == Monotone(lists[history])

\* C6 (amended): timestamps never decrease along the stored sequence as long
\* as no add_exchange appended while another one was between reading its
\* timestamp and appending.
C6_TimestampsMonotoneSerial ==
  ~overlap => \A L \in 1..Len(lists) : Monotone(lists[L])

C6_Witness ==
  /\ ~overlap
  /\ Len(lists[history]) = 2
  /\ lists[history][1].timestamp # lists[history][2].timestamp

\* C7: nothing a caller does to the sequence get_history() returned changes
\* what the store's methods observe (all of them read self.history).
C7_ReadView ==
  [][CallerMutates => lists'[history'] = lists[history]]_vars

\* C8: clear_history leaves the store empty whatever it held (count 0, empty
\* sequence), answers success, and applied to a store that is already empty
\* leaves it as it is.
C8_ClearEmpties ==
  [][\A r \in Req :
       (pc[r] = "idle" /\ kind'[r] = "clear")
         => /\ lists'[history'] = <<>>
            /\ get_total_exchanges(lists'[history']) = 0
            /\ result'[r].code = 200
            /\ result'[r].status = "success"
            /\ (lists[history] = <<>> => lists'[history'] = lists[history])]_vars

C8_Witness ==
  /\ Cardinality({r \in Req : kind[r] = "clear" /\ pc[r] = "done"}) = 2
  /\ Len(lists) = 3
  /\ lists[1] # <<>>
  /\ lists[history] = <<>>

\* C9: a list holds its exchanges in the order in which the requests
\* appended, that is in the order the provider calls completed, whatever the
\* order in which the requests were accepted or built their context.
C9_StoredInAppendOrder ==
  \A L \in 1..Len(lists) :
    LET log == AppendsTo(L) IN
    /\ Len(lists[L]) = Len(log)
    /\ \A i \in 1..Len(log) :
         /\ lists[L][i].user = asked[log[i][1]]
         /\ lists[L][i].assistant = provided[log[i][1]]

\* C9 (the behaviour it says exists): request a was accepted and built its
\* context before request b, and b's exchange is stored before a's.
C9_Reordered ==
  \E a, b \in Req :
    /\ a < b
    /\ \E i, j \in 1..Len(built) : i < j /\ built[i] = a /\ built[j] = b
    /\ AppendsTo(history) = <<<<b, history>>, <<a, history>>>>
    /\ asked[a] # asked[b]
    /\ Len(lists[history]) = 2
    /\ lists[history][1].user = asked[b]
    /\ lists[history][2].user = asked[a]

\* C10: a 200 chat response carries the provider's text for that request
\* unchanged and the fixed model identifier, which is the one the provider was
\* called with; the exchange the request appends pairs its own message with
\* that same reply.
C10_ReplyPassedThrough ==
  /\ [](\A r \in Req :
          ChatOk(r) => /\ result[r].response = provided[r]
                       /\ result[r].model = "llama-3.1-8b-instant")
  /\ [][\A r \in Req :
          (pc[r] = "append" /\ pc'[r] = "count1")
            => LET L == frame[r].ref IN
               /\ Len(lists'[L]) = Len(lists[L]) + 1
               /\ SubSeq(lists'[L], 1, Len(lists[L])) = lists[L]
               /\ lists'[L][Len(lists'[L])].user = asked[r]
               /\ lists'[L][Len(lists'[L])].assistant = provided[r]]_vars
  /\ [][\A r \in Req :
          (pc[r] = "count2" /\ pc'[r] = "done")
            => result'[r].model = frame[r].call.model]_vars

\* Two requests in flight together, with different replies, both answered.
C10_Witness ==
  \E a, b \in Req :
    /\ a # b
    /\ ChatOk(a) /\ ChatOk(b)
    /\ overlap
    /\ result[a].response = "" /\ result[b].response = "hello"

\* The index of a block as it must read, for the stores the bounds allow.
IndexText == <<"1", "2", "3", "4", "5", "6", "7", "8", "9">>

\* The number of exchange blocks in a summary text.
Blocks(summary) ==
  Cardinality({i \in 1..Len(summary) : summary[i] = ". User: "})

\* C11: generate_summary() is the header followed by exactly one block per
\* stored exchange, the k-th block carrying the index k and the user and
\* assistant texts of the k-th exchange; on an empty store (after a clear
\* too) it is the header alone.
C11_SummaryShape ==
  out.op = "generate_summary" =>
    LET h == lists[history]
        n == Len(h)
        s == out.ret
    IN /\ s[1] = "Previous conversations:\n"
       /\ Len(s) = 1 + 6 * n
       /\ Blocks(s) = n
       /\ \A k \in 1..n :
            SubSeq(s, 6 * k - 4, 6 * k + 1)
              = <<"\n", IndexText[k], ". User: ", h[k].user,
                  "\n   Bot: ", h[k].assistant>>
       /\ (n = 0 => s = <<"Previous conversations:\n">>)

\* A summary of two different exchanges has been produced.
C11_Witness ==
  /\ out.op = "generate_summary"
  /\ Len(lists[history]) = 2
  /\ lists[history][1].user # lists[history][2].user
  /\ lists[history][1].user # lists[history][1].assistant
  /\ Len(out.ret) = 13

\* A header-only summary has been produced after a clear that followed a turn.
C11_AfterClear ==
  /\ out.op = "generate_summary"
  /\ history = 2
  /\ lists[1] # <<>>
  /\ out.ret = <<"Previous conversations:\n">>

Appenders == {appended[i][1] : i \in 1..Len(appended)}

\* C12: a chat request gets no response before its handler returns and then
\* exactly one, which is 200, 400 or 500, a 500 being the envelope
\* {error, status: "failed"}; a running handler reaches its response or the
\* provider call, and once the provider has answered it reaches its response;
\* while the provider has not answered the request has no response and has
\* appended nothing.
C12_OneResponse ==
  /\ [](\A r \in LiveReq :
          kind[r] = "chat" =>
            /\ (pc[r] # "done" => result[r] = NoResult)
            /\ (pc[r] = "done" => result[r].code \in {200, 400, 500})
            /\ (pc[r] = "done" /\ result[r].code = 500
                  => /\ DOMAIN result[r] = {"code", "error", "status"}
                     /\ result[r].status = "failed")
            /\ (pc[r] = "call" => r \notin Appenders))
  /\ [][\A r \in LiveReq :
          pc[r] = "done" => (pc'[r] = "done" /\ result'[r] = result[r])]_vars
  /\ \A r \in LiveReq :
       (kind[r] = "chat" /\ pc[r] = "validate") ~> (pc[r] \in {"done", "call"})
  /\ \A r \in LiveReq : (pc[r] = "stamp") ~> (pc[r] = "done")

\* One request waits for the provider while another, accepted after it, has
\* been answered 500 for a failure raised in the handler.
C12_Witness ==
  \E r, q \in LiveReq :
    /\ r < q
    /\ pc[r] = "call"
    /\ kind[q] = "chat" /\ pc[q] = "done"
    /\ result[q].code = 500
    /\ result[q].error # "provider error"

\* C13: every step leaves the history as it is, or appends one complete
\* exchange at its end (the step being a chat request's append, every earlier
\* exchange keeping its position and values), or leaves it empty (the step
\* being a clear); so the length grows by at most one per step and no
\* exchange is edited, reordered or removed on its own.
C13_AppendOrClear ==
  [][LET h == lists[history]
         h2 == lists'[history']
     IN \/ h2 = h
        \/ /\ Len(h2) = Len(h) + 1
           /\ SubSeq(h2, 1, Len(h)) = h
           /\ DOMAIN h2[Len(h2)] = {"user", "assistant", "timestamp"}
           /\ \E r \in Req : /\ kind[r] = "chat"
                             /\ pc[r] = "append" /\ pc'[r] = "count1"
                             /\ h2[Len(h2)] = frame[r].exchange
        \/ /\ h2 = <<>>
           /\ \E r \in Req : pc[r] = "idle" /\ kind'[r] = "clear"]_vars

\* A second exchange has just been appended behind a first one.
C13_Witness ==
  /\ Len(lists[history]) = 2
  /\ \E r \in Req : pc[r] = "count1" /\ <<r, history>> = appended[Len(appended)]

\* A history of two exchanges has been cleared.
C13_Cleared ==
  /\ history > 1
  /\ lists[history] = <<>>
  /\ Len(lists[history - 1]) = 2

\* Request r takes a step of a read: GET /health, GET /history or
\* GET /summary, or build_message_context or get_total_exchanges in a chat.
ReadStep(r) ==
  /\ pc'[r] # pc[r]
  /\ \/ kind'[r] \in {"health", "get_history", "summary"}
     \/ kind[r] = "chat" /\ pc[r] \in {"build", "iter", "count1", "count2"}

\* C14: the steps of build_message_context, generate_summary,
\* get_total_exchanges and get_history, and of the GET /health, GET /history
\* and GET /summary handlers, change neither the list bound to self.history
\* nor any list object; and two build_message_context results for the same
\* text from the same list object in the same state are the same sequence.
C14_ReadsLeaveStore ==
  /\ [][(\E r \in Req : ReadStep(r)) => (lists' = lists /\ history' = history)]_vars
  /\ [](\A r, q \in Req :
          (/\ pc[r] = "call" /\ pc[q] = "call"
           /\ frame[r].ref = frame[q].ref
           /\ frame[r].user_message = frame[q].user_message
           /\ Len(frame[r].call.messages) = Len(frame[q].call.messages))
          => frame[r].call.messages = frame[q].call.messages)

\* Two requests have built their context for the same text from the same
\* history of one exchange.
C14_Witness ==
  \E r, q \in Req :
    /\ r # q
    /\ pc[r] = "call" /\ pc[q] = "call"
    /\ frame[r].ref = history /\ frame[q].ref = history
    /\ frame[r].user_message = frame[q].user_message
    /\ Len(lists[history]) = 1
    /\ Len(frame[r].call.messages) = 3
    /\ Len(frame[q].call.messages) = 3

\* GET /summary and GET /history have both answered on a non-empty history
\* that is still as it was.
C14_ReadHandlers ==
  \E r, q \in Req :
    /\ kind[r] = "summary" /\ pc[r] = "done" /\ Len(result[r].summary) = 7
    /\ kind[q] = "get_history" /\ pc[q] = "done" /\ Len(result[q].history) = 1
    /\ Len(lists[history]) = 1

\* m is the transcript of the exchanges h, in order, followed by `text`.
IsTranscript(m, h, text) ==
  /\ Len(m) = 2 * Len(h) + 1
  /\ \A i \in 1..Len(h) :
       /\ m[2 * i - 1] = [role |-> "user", content |-> h[i].user]
       /\ m[2 * i] = [role |-> "assistant", content |-> h[i].assistant]
  /\ m[Len(m)] = [role |-> "user", content |-> text]

\* Request r stores its exchange in the history in this step.
StoresExchange(r) ==
  /\ pc[r] = "append" /\ pc'[r] = "count1"
  /\ frame[r].ref = history

\* C15 (as stated): whenever an exchange is stored at position k of the
\* history, the context that was sent to the provider for it is the
\* transcript of the k-1 exchanges before it followed by its own user text.
C15_ContextIsPrefix ==
  [][\A r \in Req :
       StoresExchange(r) =>
         IsTranscript(frame[r].call.messages, lists[history],
                      frame[r].user_message)]_vars

\* C15 (amended): the same, for a request during which, from the start of its
\* context build to its own append, no other request appended or cleared.
C15_ContextIsPrefixWhenAlone ==
  [][\A r \in Req :
       (StoresExchange(r) /\ ~stale[r]) =>
         IsTranscript(frame[r].call.messages, lists[history],
                      frame[r].user_message)]_vars

\* A request that nobody interfered with has stored the second exchange of
\* the history.
C15_Witness ==
  \E r \in Req :
    /\ pc[r] = "count1"
    /\ ~stale[r]
    /\ Len(lists[history]) = 2
    /\ appended[Len(appended)] = <<r, history>>

\* The requests whose exchange was appended to the list object L.
StoredBy(L) == {appended[i][1] : i \in {j \in 1..Len(appended) : appended[j][2] = L}}

\* m holds, before its last message, only exchanges of h, in h's order from
\* its start.
IsTranscriptOfPrefix(m, h) ==
  /\ Len(m) <= 2 * Len(h) + 1
  /\ \A i \in 1..Len(h) :
       2 * i < Len(m) =>
         /\ m[2 * i - 1] = [role |-> "user", content |-> h[i].user]
         /\ m[2 * i] = [role |-> "assistant", content |-> h[i].assistant]

\* C16 (as stated): every exchange found in the history belongs to a chat
\* request that built its context after the latest clear.
C16_ClearNotUndone ==
  \A r \in StoredBy(history) : ctx_epoch[r] = epoch

\* C16 (amended): every exchange found in the history was appended by a chat
\* request whose add_exchange read self.history after the latest clear, so no
\* exchange stored before the clear comes back; and a request that built its
\* context after the latest clear stores a reply whose context held only
\* exchanges that are in the history.
C16_ClearNotUndoneByStored ==
  /\ [](/\ \A r \in StoredBy(history) : add_epoch[r] = epoch
        /\ Len(lists[history]) = Cardinality(StoredBy(history)))
  /\ [][\A r \in Req :
          (StoresExchange(r) /\ ctx_epoch[r] = epoch) =>
            IsTranscriptOfPrefix(frame[r].call.messages, lists[history])]_vars

\* After a clear, the history holds the exchange of a request that was in
\* flight (context built) when the clear happened.
C16_Witness ==
  /\ epoch > 0
  /\ Len(lists[history]) = 1
  /\ \E r \in StoredBy(history) : ctx_epoch[r] < epoch /\ add_epoch[r] = epoch

\* After a clear, a request that had read self.history before it has appended
\* to the old list object, and the history is empty.
C16_Orphaned ==
  /\ epoch > 0
  /\ lists[history] = <<>>
  /\ \E i \in 1..Len(appended) :
       /\ appended[i][2] # history
       /\ add_epoch[appended[i][1]] < epoch
       /\ pc[appended[i][1]] = "count1"

\* C17 (as stated): in every GET /history response total_exchanges is the
\* number of entries of its history array, and in every GET /summary response
\* total_exchanges is the number of exchange blocks of its summary.
C17_TotalsMatch ==
  \A r \in Req :
    pc[r] = "done" =>
      /\ (kind[r] = "get_history"
            => result[r].total_exchanges = Len(result[r].history))
      /\ (kind[r] = "summary"
            => result[r].total_exchanges = Blocks(result[r].summary))

\* C17 (amended): the same, for a GET /history or GET /summary request during
\* which no other request appended an exchange or cleared the history.
C17_TotalsMatchWhenAlone ==
  \A r \in Req :
    (pc[r] = "done" /\ ~stale[r]) =>
      /\ (kind[r] = "get_history"
            => result[r].total_exchanges = Len(result[r].history))
      /\ (kind[r] = "summary"
            => result[r].total_exchanges = Blocks(result[r].summary))

\* GET /history and GET /summary have both answered, undisturbed, on a
\* history of one exchange.
C17_Witness ==
  \E r, q \in Req :
    /\ kind[r] = "get_history" /\ pc[r] = "done" /\ ~stale[r]
    /\ result[r].total_exchanges = 1
    /\ kind[q] = "summary" /\ pc[q] = "done" /\ ~stale[q]
    /\ result[q].total_exchanges = 1
====
